---- MODULE Spec2Model ----
(***************************************************************************)
(* A model of EMNLPClean/Baseline/gpt2/run_gen.py: the command-line driver *)
(* for conditional text generation (main, adjust_length_to_model, the      *)
(* batch driver file_gen and the interactive driver prompt_gen).           *)
(*                                                                         *)
(* Python strings are sequences of one-character strings, so that find,    *)
(* slicing, replace and strip act on characters as they do in Python.      *)
(* An optional value (None or a value) is a sequence of length 0 or 1.     *)
(* The tokenizer and the language model are external to the repository:    *)
(* the tokenizer is a character-level codec over Vocab, the model's        *)
(* generate() either raises or returns its input followed by one of a      *)
(* small set of continuations.                                             *)
(***************************************************************************)
EXTENDS Integers, Sequences, FiniteSets, TLC

VARIABLES
    pc,              \* where main() is: start, load_tokenizer, load_model, dispatch,
                     \* file_loop, prompt_loop, done, failed
    argv,            \* the command line as parsed (never changes)
    args,            \* the argparse namespace main() mutates (model_type, length)
    loaded,          \* the classes from_pretrained has loaded
    capacity,        \* model.config.max_position_embeddings (0 before the model is loaded)
    files,           \* [prompt_file, output_file]: "unopened", "open" or "closed", and
                     \* opens: the number of open() calls on the output file
    table,           \* the prompt file's content: [columns, rows]
    encoded_prompt,  \* file_gen's list of encoded prompts (2-D tensors: a sequence of rows)
    i,               \* file_gen's loop index / prompt_gen's iteration count
    fout,            \* the strings written to the output file, one per write() call
    console,         \* the strings prompt_gen printed
    gen_calls,       \* the calls of model.generate so far:
                     \* [driver, prompt, input_ids, max_length]
    classes,         \* (model_class, tokenizer_class) once looked up, None before
    err,             \* the exception that ended main(), "" while there is none
    fx               \* the harness of the pure-function specifications (SpecLen, SpecText)

vars == <<pc, argv, args, loaded, capacity, files, table, encoded_prompt, i, fout,
          console, gen_calls, classes, err, fx>>

progVars == <<pc, argv, args, loaded, capacity, files, table, encoded_prompt, i, fout,
              console, gen_calls, classes, err>>

----------------------------------------------------------------------------
(* Bounds of the model *)

\* requested lengths range over -MaxLengthArg..MaxLengthArg (and around MAX_LENGTH)
MaxLengthArg == 2

\* model capacities range over -1..MaxCapacity
MaxCapacity == 2

\* the long title has LongTitleLen characters; with the marker it encodes to more
\* than PROMPT_TOKENS tokens
LongTitleLen == 95

\* prompt_gen reads at most MaxPrompts prompts
MaxPrompts == 2

\* the texts of SpecText are concatenations of at most MaxFrags fragments
MaxFrags == 3

----------------------------------------------------------------------------
(* Program constants *)

MAX_LENGTH == 10000

\* [:100] in file_gen
PROMPT_TOKENS == 100

\* split()[:400] in file_gen
REF_WORDS == 400

CBEGIN == <<"<", "c", "-", "b", "e", "g", "i", "n", ">">>

PAD == <<"<", "p", "a", "d", ">">>

HEADER == <<
    "p", "r", "o", "m", "p", "t", "\t", "r", "e", "f", "_", "f", "a", "c", "t", "\t", "r", "e",
    "f", "\t", "g", "e", "n", "\t", "s", "t", "y", "l", "e", "_", "l", "a", "b", "e", "l", "\n" >>

PADDING_TEXT == <<
    " ", "I", "n", " ", "1", "9", "9", "1", ",", " ", "t", "h", "e", " ", "r", "e", "m", "a",
    "i", "n", "s", " ", "o", "f", " ", "R", "u", "s", "s", "i", "a", "n", " ", "T", "s", "a",
    "r", " ", "N", "i", "c", "h", "o", "l", "a", "s", " ", "I", "I", " ", "a", "n", "d", " ",
    "h", "i", "s", " ", "f", "a", "m", "i", "l", "y", "\n", "(", "e", "x", "c", "e", "p", "t",
    " ", "f", "o", "r", " ", "A", "l", "e", "x", "e", "i", " ", "a", "n", "d", " ", "M", "a",
    "r", "i", "a", ")", " ", "a", "r", "e", " ", "d", "i", "s", "c", "o", "v", "e", "r", "e",
    "d", ".", "\n", "T", "h", "e", " ", "v", "o", "i", "c", "e", " ", "o", "f", " ", "N", "i",
    "c", "h", "o", "l", "a", "s", "'", "s", " ", "y", "o", "u", "n", "g", " ", "s", "o", "n",
    ",", " ", "T", "s", "a", "r", "e", "v", "i", "c", "h", " ", "A", "l", "e", "x", "e", "i",
    " ", "N", "i", "k", "o", "l", "a", "e", "v", "i", "c", "h", ",", " ", "n", "a", "r", "r",
    "a", "t", "e", "s", " ", "t", "h", "e", "\n", "r", "e", "m", "a", "i", "n", "d", "e", "r",
    " ", "o", "f", " ", "t", "h", "e", " ", "s", "t", "o", "r", "y", ".", " ", "1", "8", "8",
    "3", " ", "W", "e", "s", "t", "e", "r", "n", " ", "S", "i", "b", "e", "r", "i", "a", ",",
    "\n", "a", " ", "y", "o", "u", "n", "g", " ", "G", "r", "i", "g", "o", "r", "i", " ", "R",
    "a", "s", "p", "u", "t", "i", "n", " ", "i", "s", " ", "a", "s", "k", "e", "d", " ", "b",
    "y", " ", "h", "i", "s", " ", "f", "a", "t", "h", "e", "r", " ", "a", "n", "d", " ", "a",
    " ", "g", "r", "o", "u", "p", " ", "o", "f", " ", "m", "e", "n", " ", "t", "o", " ", "p",
    "e", "r", "f", "o", "r", "m", " ", "m", "a", "g", "i", "c", ".", "\n", "R", "a", "s", "p",
    "u", "t", "i", "n", " ", "h", "a", "s", " ", "a", " ", "v", "i", "s", "i", "o", "n", " ",
    "a", "n", "d", " ", "d", "e", "n", "o", "u", "n", "c", "e", "s", " ", "o", "n", "e", " ",
    "o", "f", " ", "t", "h", "e", " ", "m", "e", "n", " ", "a", "s", " ", "a", " ", "h", "o",
    "r", "s", "e", " ", "t", "h", "i", "e", "f", ".", " ", "A", "l", "t", "h", "o", "u", "g",
    "h", " ", "h", "i", "s", "\n", "f", "a", "t", "h", "e", "r", " ", "i", "n", "i", "t", "i",
    "a", "l", "l", "y", " ", "s", "l", "a", "p", "s", " ", "h", "i", "m", " ", "f", "o", "r",
    " ", "m", "a", "k", "i", "n", "g", " ", "s", "u", "c", "h", " ", "a", "n", " ", "a", "c",
    "c", "u", "s", "a", "t", "i", "o", "n", ",", " ", "R", "a", "s", "p", "u", "t", "i", "n",
    " ", "w", "a", "t", "c", "h", "e", "s", " ", "a", "s", " ", "t", "h", "e", "\n", "m", "a",
    "n", " ", "i", "s", " ", "c", "h", "a", "s", "e", "d", " ", "o", "u", "t", "s", "i", "d",
    "e", " ", "a", "n", "d", " ", "b", "e", "a", "t", "e", "n", ".", " ", "T", "w", "e", "n",
    "t", "y", " ", "y", "e", "a", "r", "s", " ", "l", "a", "t", "e", "r", ",", " ", "R", "a",
    "s", "p", "u", "t", "i", "n", " ", "s", "e", "e", "s", " ", "a", " ", "v", "i", "s", "i",
    "o", "n", " ", "o", "f", "\n", "t", "h", "e", " ", "V", "i", "r", "g", "i", "n", " ", "M",
    "a", "r", "y", ",", " ", "p", "r", "o", "m", "p", "t", "i", "n", "g", " ", "h", "i", "m",
    " ", "t", "o", " ", "b", "e", "c", "o", "m", "e", " ", "a", " ", "p", "r", "i", "e", "s",
    "t", ".", " ", "R", "a", "s", "p", "u", "t", "i", "n", " ", "q", "u", "i", "c", "k", "l",
    "y", " ", "b", "e", "c", "o", "m", "e", "s", " ", "f", "a", "m", "o", "u", "s", ",", "\n",
    "w", "i", "t", "h", " ", "p", "e", "o", "p", "l", "e", ",", " ", "e", "v", "e", "n", " ",
    "a", " ", "b", "i", "s", "h", "o", "p", ",", " ", "b", "e", "g", "g", "i", "n", "g", " ",
    "f", "o", "r", " ", "h", "i", "s", " ", "b", "l", "e", "s", "s", "i", "n", "g", ".", " ",
    "<", "e", "o", "d", ">", " ", "<", "/", "s", ">", " ", "<", "e", "o", "s", ">" >>

K_gpt2 == <<"g", "p", "t", "2">>

K_distilgpt2 == <<"d", "i", "s", "t", "i", "l", "g", "p", "t", "2">>

K_ctrl == <<"c", "t", "r", "l">>

K_openai_gpt == <<"o", "p", "e", "n", "a", "i", "-", "g", "p", "t">>

K_xlnet == <<"x", "l", "n", "e", "t">>

K_transfo_xl == <<"t", "r", "a", "n", "s", "f", "o", "-", "x", "l">>

K_xlm == <<"x", "l", "m">>

MODEL_CLASSES ==
    [k \in {K_gpt2, K_distilgpt2, K_ctrl, K_openai_gpt, K_xlnet, K_transfo_xl, K_xlm} |->
        CASE k = K_gpt2 -> <<"GPT2LMHeadModel", "GPT2Tokenizer">>
          [] k = K_distilgpt2 -> <<"GPT2LMHeadModel", "GPT2Tokenizer">>
          [] k = K_ctrl -> <<"CTRLLMHeadModel", "CTRLTokenizer">>
          [] k = K_openai_gpt -> <<"OpenAIGPTLMHeadModel", "OpenAIGPTTokenizer">>
          [] k = K_xlnet -> <<"XLNetLMHeadModel", "XLNetTokenizer">>
          [] k = K_transfo_xl -> <<"TransfoXLLMHeadModel", "TransfoXLTokenizer">>
          [] OTHER -> <<"XLMWithLMHeadModel", "XLMTokenizer">>]

\* the table of preprocessing functions, by name; neither driver looks it up
PREPROCESSING_FUNCTIONS ==
    [k \in {K_ctrl, K_xlm, K_xlnet, K_transfo_xl} |->
        CASE k = K_ctrl -> "prepare_ctrl_input"
          [] k = K_xlm -> "prepare_xlm_input"
          [] k = K_xlnet -> "prepare_xlnet_input"
          [] OTHER -> "prepare_transfoxl_input"]

----------------------------------------------------------------------------
(* Python's str operations *)

None == <<>>

Some(v) == <<v>>

Min(a, b) == IF a < b THEN a ELSE b

Max(a, b) == IF a > b THEN a ELSE b

WHITESPACE == {" ", "\n", "\t", "\r"}

\* s.find(sub): the lowest 0-based index where sub occurs in s, -1 when it does not
Find(s, sub) ==
    LET hits == {k \in 0..(Len(s) - Len(sub)) : SubSeq(s, k + 1, k + Len(sub)) = sub}
    IN IF hits = {} THEN -1 ELSE CHOOSE k \in hits : \A h \in hits : k <= h

\* how a slice bound is clamped for a sequence of length n
SliceIndex(k, n) == IF k < 0 THEN Max(k + n, 0) ELSE Min(k, n)

\* s[start:stop], stop an optional integer (None: to the end)
Slice(s, start, stop) ==
    LET a == SliceIndex(start, Len(s))
        b == IF stop = None THEN Len(s) ELSE SliceIndex(stop[1], Len(s))
    IN SubSeq(s, a + 1, b)

RECURSIVE ReplaceFrom(_, _, _, _)
ReplaceFrom(s, old, new, k) ==
    LET hits == {h \in k..(Len(s) - Len(old) + 1) : SubSeq(s, h, h + Len(old) - 1) = old}
    IN IF hits = {} THEN SubSeq(s, k, Len(s))
       ELSE LET h == CHOOSE x \in hits : \A y \in hits : x <= y
            IN SubSeq(s, k, h - 1) \o new \o ReplaceFrom(s, old, new, h + Len(old))

\* s.replace(old, new) for a non-empty old: left to right, non-overlapping, one pass
Replace(s, old, new) == ReplaceFrom(s, old, new, 1)

\* s.strip()
Strip(s) ==
    LET keep == {k \in 1..Len(s) : s[k] \notin WHITESPACE}
    IN IF keep = {} THEN <<>>
       ELSE SubSeq(s, CHOOSE k \in keep : \A h \in keep : k <= h,
                      CHOOSE k \in keep : \A h \in keep : k >= h)

RECURSIVE SplitFrom(_, _)
SplitFrom(s, k) ==
    LET starts == {h \in k..Len(s) : s[h] \notin WHITESPACE}
    IN IF starts = {} THEN <<>>
       ELSE LET a == CHOOSE x \in starts : \A y \in starts : x <= y
                ends == {h \in a..Len(s) : s[h] \in WHITESPACE}
                b == IF ends = {} THEN Len(s) + 1
                     ELSE CHOOSE x \in ends : \A y \in ends : x <= y
            IN <<SubSeq(s, a, b - 1)>> \o SplitFrom(s, b)

\* s.split(): the words between runs of whitespace
Split(s) == SplitFrom(s, 1)

RECURSIVE Join(_, _)
Join(sep, parts) ==
    IF parts = <<>> THEN <<>>
    ELSE IF Len(parts) = 1 THEN parts[1]
    ELSE parts[1] \o sep \o Join(sep, Tail(parts))

UPPER == <<
    "A", "B", "C", "D", "E", "F", "G", "H", "I", "J", "K", "L", "M", "N", "O", "P", "Q", "R",
    "S", "T", "U", "V", "W", "X", "Y", "Z" >>

LOWER == <<
    "a", "b", "c", "d", "e", "f", "g", "h", "i", "j", "k", "l", "m", "n", "o", "p", "q", "r",
    "s", "t", "u", "v", "w", "x", "y", "z" >>

\* s.lower()
Lower(s) ==
    [k \in 1..Len(s) |->
        IF \E u \in 1..Len(UPPER) : UPPER[u] = s[k]
        THEN LOWER[CHOOSE u \in 1..Len(UPPER) : UPPER[u] = s[k]]
        ELSE s[k]]

Contains(s, sub) == Find(s, sub) >= 0

----------------------------------------------------------------------------
(* The tokenizer: a character-level codec *)

Vocab == <<
    "a", "b", "c", "d", "e", "f", "g", "h", "i", "j", "k", "l", "m", "n", "o", "p", "q", "r",
    "s", "t", "u", "v", "w", "x", "y", "z", "A", "B", "C", "D", "E", "F", "G", "H", "I", "J",
    "K", "L", "M", "N", "O", "P", "Q", "R", "S", "T", "U", "V", "W", "X", "Y", "Z", "0", "1",
    "2", "3", "4", "5", "6", "7", "8", "9", " ", "\n", "\t", "!", "#", "$", "%", "&", "'",
    "(", ")", "*", "+", ",", "-", ".", "/", ":", ";", "<", "=", ">", "?", "@", "[", "]",
    "^", "_", "{", "|", "}", "~" >>

TokenOf == [c \in {Vocab[k] : k \in 1..Len(Vocab)} |-> CHOOSE k \in 1..Len(Vocab) : Vocab[k] = c]

\* tokenizer.encode(text, add_special_tokens=False): a list of token ids
Encode(text) == [k \in 1..Len(text) |-> TokenOf[text[k]]]

\* tokenizer.encode(text, add_special_tokens=False, return_tensors="pt"): a tensor of
\* shape (1, n), a sequence holding one row of n token ids
EncodeTensor(text) == <<Encode(text)>>

\* clean_up_tokenization of the decoded string
CleanUp(s) ==
    LET r1 == Replace(s, <<" ", ".">>, <<".">>)
        r2 == Replace(r1, <<" ", "?">>, <<"?">>)
        r3 == Replace(r2, <<" ", "!">>, <<"!">>)
        r4 == Replace(r3, <<" ", ",">>, <<",">>)
        r5 == Replace(r4, <<" ", "'", " ">>, <<"'">>)
        r6 == Replace(r5, <<" ", "n", "'", "t">>, <<"n", "'", "t">>)
        r7 == Replace(r6, <<" ", "'", "m">>, <<"'", "m">>)
        r8 == Replace(r7, <<" ", "'", "s">>, <<"'", "s">>)
        r9 == Replace(r8, <<" ", "'", "v", "e">>, <<"'", "v", "e">>)
    IN Replace(r9, <<" ", "'", "r", "e">>, <<"'", "r", "e">>)

\* tokenizer.decode(ids, clean_up_tokenization_spaces=True)
Decode(ids) == CleanUp([k \in 1..Len(ids) |-> Vocab[ids[k]]])

----------------------------------------------------------------------------
(* The program's pure steps *)

\* a faulty variant of adjust_length_to_model: the safety bound is tested first
adjust_length_bound_first(length, max_sequence_length) ==
    IF length < 0 THEN MAX_LENGTH
    ELSE IF 0 < max_sequence_length /\ max_sequence_length < length THEN max_sequence_length
    ELSE length

\* a faulty variant of adjust_length_to_model: the model size is compared the wrong way round
adjust_length_wrong_compare(length, max_sequence_length) ==
    IF length < 0 /\ max_sequence_length > 0 THEN max_sequence_length
    ELSE IF 0 < length /\ length < max_sequence_length THEN max_sequence_length
    ELSE IF length < 0 THEN MAX_LENGTH
    ELSE length

adjust_length_to_model(length, max_sequence_length) ==
    IF length < 0 /\ max_sequence_length > 0 THEN max_sequence_length
    ELSE IF 0 < max_sequence_length /\ max_sequence_length < length THEN max_sequence_length
    ELSE IF length < 0 THEN MAX_LENGTH
    ELSE length

\* a faulty variant of LookupClasses: an unknown key falls back to the gpt2 classes
LookupClassesDefault(model_type) ==
    IF model_type \in DOMAIN MODEL_CLASSES
    THEN Some(MODEL_CLASSES[model_type])
    ELSE Some(MODEL_CLASSES[K_gpt2])

\* MODEL_CLASSES[args.model_type] under try/except KeyError: None stands for the KeyError
LookupClasses(model_type) ==
    IF model_type \in DOMAIN MODEL_CLASSES THEN Some(MODEL_CLASSES[model_type]) ELSE None

\* prepare_ctrl_input: the prompt is returned as it is (the rest only logs)
prepare_ctrl_input(a, prompt_text) == prompt_text

\* prepare_xlm_input: the prompt is returned as it is
prepare_xlm_input(a, prompt_text) == prompt_text

\* prepare_xlnet_input: the padding passage is prepended to the prompt
prepare_xlnet_input(a, prompt_text) ==
    (IF a.padding_text # <<>> THEN a.padding_text ELSE PADDING_TEXT) \o prompt_text

\* prepare_transfoxl_input: the same
prepare_transfoxl_input(a, prompt_text) ==
    (IF a.padding_text # <<>> THEN a.padding_text ELSE PADDING_TEXT) \o prompt_text

\* Python's truth value of an optional string: None and "" are false
Truthy(opt) == opt # None /\ opt[1] # <<>>

\* " <c-begin> ".strip(): what file_gen appends to each title
CBEGIN_SUFFIX == Strip(<<" ">> \o CBEGIN \o <<" ">>)

\* tokenizer.encode(prompt_text + " <c-begin> ".strip(), ..., return_tensors="pt")[:100]:
\* the slice is taken of the tensor of shape (1, n), along its first dimension
EncodePrompt(prompt_text) ==
    Slice(EncodeTensor(prompt_text \o CBEGIN_SUFFIX), 0, Some(PROMPT_TOKENS))

\* " ".join(i.strip().split()[:400])
RefContent(content) == Join(<<" ">>, Slice(Split(Strip(content)), 0, Some(REF_WORDS)))

\* file_gen: text[text.find("<c-begin>"): text.find(args.stop_token) if args.stop_token else None]
SliceBatch(text, stop_token) ==
    Slice(text, Find(text, CBEGIN),
          IF Truthy(stop_token) THEN Some(Find(text, stop_token[1])) ELSE None)

\* file_gen: the three replace calls
PostBatch(text) ==
    Replace(Replace(Replace(text, PAD, <<>>), CBEGIN, <<>>), <<"\n">>, <<" ">>)

\* prompt_gen: text[: text.find(args.stop_token) if args.stop_token else None]
SliceInteractive(text, stop_token) ==
    Slice(text, 0, IF Truthy(stop_token) THEN Some(Find(text, stop_token[1])) ELSE None)

\* prompt_gen: the two replace calls
PostInteractive(text) == Replace(Replace(text, PAD, <<>>), <<"\n">>, <<" ">>)

\* a faulty variant of BatchLine: the marker is removed from the prompt field too
BatchLineMarkerRemoved(prompt_text, fact, ref, text) ==
    Join(<<"\t">>, <<Strip(Replace(prompt_text, CBEGIN, <<>>)), Strip(fact), Strip(ref),
                     Strip(text), <<"1">>>>)
        \o <<"\n">>

\* "{}\t{}\t{}\t{}\t{}\n".format(prompt_text.strip(), fact.strip(), ref.strip(), text.strip(), 1)
BatchLine(prompt_text, fact, ref, text) ==
    Join(<<"\t">>, <<Strip(prompt_text), Strip(fact), Strip(ref), Strip(text), <<"1">>>>)
        \o <<"\n">>

\* model.generate(input_ids=e_p, ...) when it returns: a tensor whose row 0 is the
\* input followed by the sampled continuation
Generate(input_ids, continuation) == <<input_ids[1] \o Encode(continuation)>>

\* file_gen's lists, read from the table
prompt_list == [k \in 1..Len(table.rows) |-> table.rows[k].title]

fact_raw == prompt_list

ref_content == [k \in 1..Len(table.rows) |-> RefContent(table.rows[k].content)]

\* a faulty variant of FileGenLine: the reference columns are always taken from the first row
FileGenLineFirstRow(k, e_p, continuation) ==
    LET decoded == Decode(Generate(e_p, continuation)[1])
        text == PostBatch(SliceBatch(decoded, args.stop_token))
    IN BatchLine(Decode(e_p[1]), fact_raw[1], ref_content[1], text)

\* the line file_gen writes for its k-th prompt (k from 1) when generate returns
FileGenLine(k, e_p, continuation) ==
    LET decoded == Decode(Generate(e_p, continuation)[1])
        text == PostBatch(SliceBatch(decoded, args.stop_token))
    IN BatchLine(Decode(e_p[1]), fact_raw[k], ref_content[k], text)

\* the line prompt_gen prints when generate returns
PromptGenLine(e_p, continuation) ==
    LET decoded == Decode(Generate(e_p, continuation)[1])
    IN PostInteractive(SliceInteractive(decoded, args.stop_token))

----------------------------------------------------------------------------
(* The inputs *)

T_gpt2_upper == <<"G", "P", "T", "2">>

T_bert == <<"b", "e", "r", "t">>

ModelTypes == {K_gpt2, T_gpt2_upper, K_xlnet, T_bert}

LengthArgs == {-1, 0, 1, MaxLengthArg, MAX_LENGTH + 1}

Capacities == {-1, 0, MaxCapacity}

StopTokens == {None, Some(<<>>), Some(<<".">>)}

PaddingTexts == {<<>>, <<"O", "n", "c", "e", ".", " ">>}

TitleSky == <<"T", "h", "e", " ", "s", "k", "y">>

TitleSea == <<" ", "A", " ", "s", "e", "a", " ", ",", " ", "f", "a", "r", " ">>

TitleLong == [k \in 1..LongTitleLen |-> "a"]

ContentSky == <<
    "w", "a", "s", " ", "b", "l", "u", "e", " ", " ", "a", "n", "d", "\n", "c", "l", "e", "a",
    "r", " ", "f", "o", "r", " ", "m", "i", "l", "e", "s", ".", " " >>

ContentSea == <<"i", "s", " ", "d", "e", "e", "p">>

Row(title, content) == [title |-> title, content |-> content]

Tables ==
    { [columns |-> {"title", "content"}, rows |-> <<>>],
      [columns |-> {"title", "content"}, rows |-> <<Row(TitleSky, ContentSky)>>],
      [columns |-> {"title", "content"},
       rows |-> <<Row(TitleSky, ContentSky), Row(TitleSea, ContentSea)>>],
      [columns |-> {"title", "content"}, rows |-> <<Row(TitleLong, ContentSea)>>],
      [columns |-> {"title"}, rows |-> <<Row(TitleSky, <<>>)>>] }

Continuations == { <<" ", "i", "s", " ", "u", "p", ".", " ", "H", "i">>, <<"<", "p", "a", "d", ">", "\n", "n", "o">> }

Prompts == { <<"H", "e", "l", "l", "o", " ", "w", "o", "r", "l", "d">>, <<"H", "i", ".">> }

----------------------------------------------------------------------------
(* main(): the state after parse_args, and its steps *)

Idle == [op |-> "none"]

ProgInit(a) ==
    /\ pc = "start"
    /\ argv = a
    /\ args = a
    /\ classes = None
    /\ loaded = {}
    /\ capacity = 0
    /\ files = [prompt_file |-> "unopened", output_file |-> "unopened", opens |-> 0]
    /\ table = [columns |-> {}, rows |-> <<>>]
    /\ encoded_prompt = <<>>
    /\ i = 0
    /\ fout = <<>>
    /\ console = <<>>
    /\ gen_calls = <<>>
    /\ err = ""

Init ==
    /\ \E a \in [model_type : ModelTypes, length : LengthArgs, stop_token : StopTokens,
                 padding_text : PaddingTexts, no_file : BOOLEAN] : ProgInit(a)
    /\ fx = Idle

\* lines 196-206: device, set_seed, args.model_type.lower(), the MODEL_CLASSES lookup
Startup ==
    /\ pc = "start"
    /\ LET model_type == Lower(args.model_type)
           found == LookupClasses(model_type)
       IN /\ args' = [args EXCEPT !.model_type = model_type]
          /\ classes' = found
          /\ pc' = IF found = None THEN "failed" ELSE "load_tokenizer"
          /\ err' = IF found = None THEN "KeyError" ELSE ""
    /\ UNCHANGED <<argv, loaded, capacity, files, table, encoded_prompt, i, fout, console,
                   gen_calls, fx>>

\* line 208: tokenizer_class.from_pretrained returns
LoadTokenizer ==
    /\ pc = "load_tokenizer"
    /\ loaded' = loaded \cup {classes[1][2]}
    /\ pc' = "load_model"
    /\ UNCHANGED <<argv, args, classes, capacity, files, table, encoded_prompt, i, fout,
                   console, gen_calls, err, fx>>

\* line 208: tokenizer_class.from_pretrained raises
LoadTokenizerRaises ==
    /\ pc = "load_tokenizer"
    /\ pc' = "failed"
    /\ err' = "OSError"
    /\ UNCHANGED <<argv, args, classes, loaded, capacity, files, table, encoded_prompt, i,
                   fout, console, gen_calls, fx>>

\* lines 209-213 and the dispatch of lines 287-290: the model is loaded, the length adjusted
LoadModel ==
    /\ pc = "load_model"
    /\ \E c \in Capacities :
          /\ capacity' = c
          /\ args' = [args EXCEPT !.length = adjust_length_to_model(args.length, c)]
    /\ loaded' = loaded \cup {classes[1][1]}
    /\ pc' = IF args.no_file THEN "prompt_gen" ELSE "file_gen"
    /\ UNCHANGED <<argv, classes, files, table, encoded_prompt, i, fout, console, gen_calls,
                   err, fx>>

\* line 209: model_class.from_pretrained raises
LoadModelRaises ==
    /\ pc = "load_model"
    /\ pc' = "failed"
    /\ err' = "OSError"
    /\ UNCHANGED <<argv, args, classes, loaded, capacity, files, table, encoded_prompt, i,
                   fout, console, gen_calls, fx>>

\* file_gen, lines 220-237: the table is read, the prompts encoded, the output file
\* opened and the header written
FileGenSetup ==
    /\ pc = "file_gen"
    /\ \E t \in Tables :
          /\ {"title", "content"} \subseteq t.columns
          /\ table' = t
          /\ encoded_prompt' = [k \in 1..Len(t.rows) |-> EncodePrompt(t.rows[k].title)]
    /\ files' = [prompt_file |-> "closed", output_file |-> "open", opens |-> files.opens + 1]
    /\ fout' = <<HEADER>>
    /\ i' = 0
    /\ pc' = "file_loop"
    /\ UNCHANGED <<argv, args, classes, loaded, capacity, console, gen_calls, err, fx>>

\* file_gen, lines 220-222: a table without the title or the content column
FileGenBadTable ==
    /\ pc = "file_gen"
    /\ \E t \in Tables :
          /\ ~({"title", "content"} \subseteq t.columns)
          /\ table' = t
    /\ files' = [files EXCEPT !.prompt_file = "closed"]
    /\ pc' = "failed"
    /\ err' = "KeyError"
    /\ UNCHANGED <<argv, args, classes, loaded, capacity, encoded_prompt, i, fout, console,
                   gen_calls, fx>>

\* the arguments of file_gen's k-th call of model.generate (k from 1)
FileGenCall(k) ==
    [driver |-> "file_gen", prompt |-> prompt_list[k] \o CBEGIN_SUFFIX,
     input_ids |-> encoded_prompt[k], max_length |-> args.length]

\* file_gen, lines 240-263: one turn of the loop, generate returns
FileGenRow ==
    /\ pc = "file_loop"
    /\ i < Len(encoded_prompt)
    /\ \E continuation \in Continuations :
          fout' = Append(fout, FileGenLine(i + 1, encoded_prompt[i + 1], continuation))
    /\ gen_calls' = Append(gen_calls, FileGenCall(i + 1))
    /\ i' = i + 1
    /\ UNCHANGED <<pc, argv, args, classes, loaded, capacity, files, table, encoded_prompt,
                   console, err, fx>>

\* file_gen, lines 240-250: generate raises; nothing catches it and fout.close() is not run
FileGenRowRaises ==
    /\ pc = "file_loop"
    /\ i < Len(encoded_prompt)
    /\ gen_calls' = Append(gen_calls, FileGenCall(i + 1))
    /\ pc' = "failed"
    /\ err' = "RuntimeError"
    /\ UNCHANGED <<argv, args, classes, loaded, capacity, files, table, encoded_prompt, i,
                   fout, console, fx>>

\* file_gen, line 264: the loop is over, fout.close()
FileGenClose ==
    /\ pc = "file_loop"
    /\ i = Len(encoded_prompt)
    /\ files' = [files EXCEPT !.output_file = "closed"]
    /\ pc' = "done"
    /\ UNCHANGED <<argv, args, classes, loaded, capacity, table, encoded_prompt, i, fout,
                   console, gen_calls, err, fx>>

\* the arguments of prompt_gen's call of model.generate for the text read
PromptGenCall(text) ==
    [driver |-> "prompt_gen", prompt |-> text, input_ids |-> EncodeTensor(text),
     max_length |-> args.length]

\* prompt_gen, lines 267-286: one turn of the loop, generate returns
PromptGenTurn ==
    /\ pc = "prompt_gen"
    /\ i < MaxPrompts
    /\ \E text \in Prompts, continuation \in Continuations :
          /\ gen_calls' = Append(gen_calls, PromptGenCall(text))
          /\ console' = Append(console, PromptGenLine(EncodeTensor(text), continuation))
    /\ i' = i + 1
    /\ UNCHANGED <<pc, argv, args, classes, loaded, capacity, files, table, encoded_prompt,
                   fout, err, fx>>

\* prompt_gen, lines 267-278: generate raises and ends the loop
PromptGenTurnRaises ==
    /\ pc = "prompt_gen"
    /\ i < MaxPrompts
    /\ \E text \in Prompts : gen_calls' = Append(gen_calls, PromptGenCall(text))
    /\ pc' = "failed"
    /\ err' = "RuntimeError"
    /\ UNCHANGED <<argv, args, classes, loaded, capacity, files, table, encoded_prompt, i,
                   fout, console, fx>>

\* prompt_gen, line 267: input() raises at the end of the input
PromptGenEOF ==
    /\ pc = "prompt_gen"
    /\ pc' = "failed"
    /\ err' = "EOFError"
    /\ UNCHANGED <<argv, args, classes, loaded, capacity, files, table, encoded_prompt, i,
                   fout, console, gen_calls, fx>>

Next ==
    \/ Startup
    \/ LoadTokenizer
    \/ LoadTokenizerRaises
    \/ LoadModel
    \/ LoadModelRaises
    \/ FileGenSetup
    \/ FileGenBadTable
    \/ FileGenRow
    \/ FileGenRowRaises
    \/ FileGenClose
    \/ PromptGenTurn
    \/ PromptGenTurnRaises
    \/ PromptGenEOF

Spec == Init /\ [][Next]_vars

----------------------------------------------------------------------------
(* adjust_length_to_model as a pure function, on every pair of a bounded range *)

LengthRange ==
    (-(MaxLengthArg + 2)..(MaxLengthArg + 2)) \cup ((MAX_LENGTH - 1)..(MAX_LENGTH + 1))

CapacityRange == (-(MaxCapacity + 1))..(MaxCapacity + 1)

ProgIdle ==
    ProgInit([model_type |-> K_gpt2, length |-> 20, stop_token |-> None,
              padding_text |-> <<>>, no_file |-> FALSE])

InitLen ==
    /\ ProgIdle
    /\ \E l \in LengthRange, m \in CapacityRange :
          fx = [op |-> "input", length |-> l, max_sequence_length |-> m, out |-> l]

AdjustLength ==
    /\ fx.op = "input"
    /\ fx' = [fx EXCEPT !.op = "adjusted",
                        !.out = adjust_length_to_model(fx.length, fx.max_sequence_length)]
    /\ UNCHANGED progVars

NextLen == AdjustLength

SpecLen == InitLen /\ [][NextLen]_vars

----------------------------------------------------------------------------
(* The drivers' text steps as pure functions, on texts built from fragments *)

Fragments == { <<"<", "p">>, <<"a", "d", ">">>, PAD, CBEGIN, <<".">>, <<"a">>, <<"\n">> }

RECURSIVE TextsOf(_)
TextsOf(n) ==
    IF n = 0 THEN {<<>>}
    ELSE LET shorter == TextsOf(n - 1)
         IN shorter \cup {t \o f : t \in shorter, f \in Fragments}

Texts == TextsOf(MaxFrags)

InitText ==
    /\ ProgIdle
    /\ \E t \in Texts, s \in StopTokens :
          fx = [op |-> "input", text |-> t, stop_token |-> s, sliced |-> <<>>, out |-> <<>>]

\* file_gen, lines 256-259
TextBatch ==
    /\ fx.op = "input"
    /\ LET sliced == SliceBatch(fx.text, fx.stop_token)
       IN fx' = [fx EXCEPT !.op = "file_gen", !.sliced = sliced, !.out = PostBatch(sliced)]
    /\ UNCHANGED progVars

\* prompt_gen, lines 283-285
TextInteractive ==
    /\ fx.op = "input"
    /\ LET sliced == SliceInteractive(fx.text, fx.stop_token)
       IN fx' = [fx EXCEPT !.op = "prompt_gen", !.sliced = sliced,
                           !.out = PostInteractive(sliced)]
    /\ UNCHANGED progVars

NextText == TextBatch \/ TextInteractive

SpecText == InitText /\ [][NextText]_vars

----------------------------------------------------------------------------
(* The claims *)

RECURSIVE FieldsFrom(_, _)
FieldsFrom(s, k) ==
    LET tabs == {h \in k..Len(s) : s[h] = "\t"}
    IN IF tabs = {} THEN <<SubSeq(s, k, Len(s))>>
       ELSE LET h == CHOOSE x \in tabs : \A y \in tabs : x <= y
            IN <<SubSeq(s, k, h - 1)>> \o FieldsFrom(s, h + 1)

\* the tab-separated fields of a written line, its final newline dropped
Fields(line) == FieldsFrom(SubSeq(line, 1, Len(line) - 1), 1)

\* the model has been loaded and args.length adjusted (line 212 has run)
LengthAdjusted == classes # None /\ classes[1][1] \in loaded

Supported(model_type) == Lower(model_type) \in DOMAIN MODEL_CLASSES

\* C1: adjust_length_to_model(requested, capacity) is capacity when requested < 0 and
\* capacity > 0; else capacity when 0 < capacity < requested; else 10000 when
\* requested < 0; else requested.
AdjustLengthRules ==
    fx.op = "adjusted" =>
        LET requested == fx.length
            cap == fx.max_sequence_length
        IN /\ (requested < 0 /\ cap > 0) => fx.out = cap
           /\ (requested >= 0 /\ 0 < cap /\ cap < requested) => fx.out = cap
           /\ (requested < 0 /\ cap <= 0) => fx.out = 10000
           /\ (requested >= 0 /\ ~(0 < cap /\ cap < requested)) => fx.out = requested

\* C1's case: a negative request to a model without capacity has been resolved
AdjustLengthSafetyBoundHit ==
    fx.op = "adjusted" /\ fx.length < 0 /\ fx.max_sequence_length <= 0 /\ fx.out = 10000

\* C2 as stated: the resolved length, which every generation call uses, is positive,
\* at most the model's capacity when that is positive, and at most 10000 when the
\* model declares no capacity.
ResolvedLengthPositiveAndCapped ==
    LengthAdjusted =>
        /\ args.length > 0
        /\ capacity > 0 => args.length <= capacity
        /\ capacity <= 0 => args.length <= 10000
        /\ \A k \in 1..Len(gen_calls) : gen_calls[k].max_length = args.length

\* C2 as amended: the resolved length, which every generation call uses, is a natural
\* number, positive unless the requested length is 0; it is at most the model's capacity
\* when that is positive; when the model declares no capacity it is 10000 for a negative
\* request and the requested length itself otherwise.
ResolvedLengthNaturalAndCapped ==
    LengthAdjusted =>
        /\ args.length \in Nat
        /\ argv.length # 0 => args.length > 0
        /\ capacity > 0 => args.length <= capacity
        /\ capacity <= 0 => args.length = (IF argv.length < 0 THEN 10000 ELSE argv.length)
        /\ \A k \in 1..Len(gen_calls) : gen_calls[k].max_length = args.length

\* C2's case: a generation call made with the safety bound as its length
GenerationCalledWithSafetyBound ==
    /\ Len(gen_calls) > 0
    /\ argv.length < 0
    /\ capacity <= 0
    /\ gen_calls[1].max_length = 10000

\* C3: the batch driver writes the header first and then one row per table row, the
\* j-th row built from the j-th table row; what is written is at every point a prefix
\* of that, and a run that completes has written a row for every table row.
BatchRowsInOrder ==
    IF files.output_file = "unopened" THEN fout = <<>>
    ELSE /\ Len(fout) = i + 1
         /\ i <= Len(table.rows)
         /\ fout[1] = HEADER
         /\ \A j \in 1..i :
               LET line == fout[j + 1]
                   f == Fields(line)
               IN /\ line[Len(line)] = "\n"
                  /\ Len(f) >= 5
                  /\ f[2] = Strip(table.rows[j].title)
                  /\ f[3] = Strip(RefContent(table.rows[j].content))
         /\ pc = "done" => i = Len(table.rows)

\* C3's case: a batch run over a table of two rows has completed
BatchOfTwoRowsDone == pc = "done" /\ Len(table.rows) = 2 /\ Len(fout) = 3

\* C4 as stated: in every row the batch driver writes, the prompt field, stripped,
\* contains no continuation-begin marker.
PromptFieldHasNoMarker ==
    \A j \in 2..Len(fout) : ~Contains(Strip(Fields(fout[j])[1]), CBEGIN)

\* C4 as amended: in every row the batch driver writes, the prompt field is the decoding
\* of the encoded prompt sent to the model for that row (the title and the marker), with
\* its surrounding whitespace stripped and nothing else removed: where the decoding
\* holds the marker, so does the field.
PromptFieldIsDecodedPrompt ==
    \A j \in 2..Len(fout) :
        LET sent == Decode(gen_calls[j - 1].input_ids[1])
            field == Fields(fout[j])[1]
        IN /\ gen_calls[j - 1].driver = "file_gen"
           /\ field = Strip(sent)
           /\ Contains(sent, CBEGIN) => Contains(field, CBEGIN)

\* C4's case: a row has been written whose prompt field holds the marker
RowWrittenWithMarker == Len(fout) >= 2 /\ Contains(Fields(fout[2])[1], CBEGIN)

\* C5: the encoded prompt the batch driver passes to generate has at most 100 tokens,
\* the first 100 of the encoded title and marker.
BatchPromptAtMost100Tokens ==
    \A k \in 1..Len(gen_calls) :
        gen_calls[k].driver = "file_gen" =>
            /\ Len(gen_calls[k].input_ids[1]) <= 100
            /\ gen_calls[k].input_ids[1] = Slice(Encode(gen_calls[k].prompt), 0, Some(100))

\* C6: for xlnet and transfo-xl a driver sends to the model the encoding of the padding
\* passage (padding_text when non-empty, else the default passage) followed by the
\* prompt, and the passage appears in no output.
PaddingPassagePrepended ==
    args.model_type \in {K_xlnet, K_transfo_xl} =>
        LET passage == IF args.padding_text # <<>> THEN args.padding_text ELSE PADDING_TEXT
        IN /\ \A k \in 1..Len(gen_calls) :
                 gen_calls[k].input_ids = EncodeTensor(passage \o gen_calls[k].prompt)
           /\ \A k \in 1..Len(console) : ~Contains(console[k], passage)
           /\ \A k \in 1..Len(fout) : ~Contains(fout[k], passage)

\* C7: post-processing (removing "<pad>", in batch mode "<c-begin>", and replacing
\* newlines by spaces) applied to a post-processed string returns it unchanged.
PostProcessingIdempotent ==
    /\ fx.op = "file_gen" => PostBatch(fx.out) = fx.out
    /\ fx.op = "prompt_gen" => PostInteractive(fx.out) = fx.out

\* C8: with an unsupported model family main() fails with the KeyError before any
\* tokenizer or model is loaded and before any file is opened, and reaches no
\* generation step.
UnsupportedFamilyFailsAtStartup ==
    ~Supported(argv.model_type) =>
        /\ pc \in {"start", "failed"}
        /\ pc = "failed" => err = "KeyError"
        /\ loaded = {}
        /\ files.prompt_file = "unopened"
        /\ files.output_file = "unopened"
        /\ files.opens = 0
        /\ gen_calls = <<>>
        /\ fout = <<>>
        /\ console = <<>>

\* C8's case: an unsupported family has made startup fail
UnsupportedFamilyFailed ==
    ~Supported(argv.model_type) /\ pc = "failed" /\ err = "KeyError" /\ loaded = {}

\* C9: the text a driver keeps ends at the first occurrence of the stop_token, or at
\* the end of the text when there is no stop_token to cut at (none set, or not in the
\* text); in the batch driver it starts at the continuation-begin marker.
KeptTextEndsAtStop ==
    LET text == fx.text
        cut == Truthy(fx.stop_token) /\ Contains(text, fx.stop_token[1])
        stop == IF cut THEN Find(text, fx.stop_token[1]) ELSE Len(text)
    IN /\ fx.op = "prompt_gen" => fx.sliced = SubSeq(text, 1, stop)
       /\ (fx.op = "file_gen" /\ Contains(text, CBEGIN)) =>
              fx.sliced = SubSeq(text, Find(text, CBEGIN) + 1, stop)

\* C10: the batch driver opens the output file once, and the file is not open when
\* the driver has ended, whether after the last row or by an exception.
OutputFileClosedAtEnd ==
    /\ files.opens <= 1
    /\ pc \in {"done", "failed"} => files.output_file # "open"

====
